---- MODULE Spec2Model ----
(***************************************************************************)
(* A model of Vsqlite3 (Include/Vsqlite3/Vsqlite3.hpp): the scoped Handle,  *)
(* the prepared Statement with its row-available flag, and the Binding<T>   *)
(* conversion rules, over a model of the SQLite statement object they call. *)
(*                                                                         *)
(*   SpecHandle : the Handle<T, InvalidHandleValue> state machine           *)
(*   Spec       : one Database, one Statement object and the engine         *)
(*   SpecDb     : the Database, and statements made and run through it      *)
(*   SpecBind   : Binding<T>::Bind followed by Binding<T>::Column           *)
(***************************************************************************)
EXTENDS Integers, Sequences, FiniteSets, TLC

VARIABLES
    handles,    \* SpecHandle: slot -> [live, m_handle, m_releaseFn]
    released,   \* SpecHandle: resource value -> number of releaseFn calls on it
    nextRes,    \* SpecHandle: next resource value to be acquired
    acquired,   \* SpecHandle: values handed to Handle(T, fn) with a release function
    lastH,      \* SpecHandle: what the last Handle operation did
    stmt,       \* Spec: the Statement object [live, m_stmt, m_canFetch]
    eng,        \* Spec: the engine's statement object behind m_stmt
    engLive,    \* Spec: engine statements prepared and not yet finalized
    calls,      \* Spec: the engine calls the last operation issued, in order
    last,       \* Spec: the last operation, its arguments and how it ended
    out,        \* Spec: the output arguments of the last call, as it left them
    fetchLog,   \* Spec: results of the Fetch calls made in a row
    runKind,    \* Spec: what preceded that row of Fetch calls
    bnd,        \* SpecBind: the value bound, the value stored, the value read
    db,         \* SpecDb: the Database object [live, m_db]
    connLive    \* SpecDb: engine connections opened and not yet closed

hvars == <<handles, released, nextRes, acquired, lastH>>

svars == <<stmt, eng, engLive, calls, last, out, fetchLog, runKind>>

bvars == <<bnd>>

dvars == <<db, connLive>>

vars == <<hvars, svars, bvars, dvars>>

-----------------------------------------------------------------------------
(* Bounds of the model. *)

NSlots == 2     \* Handle objects that can exist at once
MaxRes == 3     \* resource values that can be acquired in one behaviour
MaxRows == 2    \* result rows a query can yield
MaxParams == 2  \* parameter positions of a query, and arguments of one call
MaxCols == 2    \* output arguments of one Column/Fetch call
MaxLen == 3     \* bytes of a text
MaxByte == 1    \* largest byte value of a text; 0 is the zero byte
MaxTail == 1    \* bytes between the end of a text view and the next zero byte

Slots == 1..NSlots
Resources == 1..MaxRes

-----------------------------------------------------------------------------
\* The sequences over S of length at most n.
RECURSIVE SeqsUpTo(_, _)
SeqsUpTo(S, n) ==
    IF n = 0 THEN {<<>>}
    ELSE LET shorter == SeqsUpTo(S, n - 1)
         IN  shorter \cup {Append(q, x) : q \in shorter, x \in S}

-----------------------------------------------------------------------------
(* Handle<T, InvalidHandleValue>.  m_releaseFn is a std::function: TRUE when *)
(* it holds a target, FALSE when it is empty (nullptr).                      *)

InvalidHandleValue == 0

\* Handle::Handle(T handle, std::function<void(T)> releaseFn)
HandleNew(v, fn) == [m_handle |-> v, m_releaseFn |-> fn]

\* Handle::Handle(void) : Handle(InvalidHandleValue, nullptr)
HandleDefault == HandleNew(InvalidHandleValue, FALSE)

\* Handle::Reset: forget the value and the function, calling nothing
HandleReset(h) == [h EXCEPT !.m_handle = InvalidHandleValue, !.m_releaseFn = FALSE]

\* Mutant: Release calls the function but keeps the value and the function.
HandleReleaseKeeps(h) ==
    IF (h.m_handle # InvalidHandleValue) /\ h.m_releaseFn
    THEN [h |-> h, invoked |-> <<h.m_handle>>, ret |-> TRUE]
    ELSE [h |-> h, invoked |-> <<>>, ret |-> FALSE]

\* Handle::Release: the handle after the call, the values the release function
\* was called with (in order), and the returned bool
HandleRelease(h) ==
    IF (h.m_handle # InvalidHandleValue) /\ h.m_releaseFn
    THEN [h |-> HandleReset(h), invoked |-> <<h.m_handle>>, ret |-> TRUE]
    ELSE [h |-> h, invoked |-> <<>>, ret |-> FALSE]

\* Mutant: move-assignment adopts the source without releasing what it owns.
HandleMoveAssignLeaks(dst, src, same) ==
    IF ~same
    THEN [dst |-> [dst EXCEPT !.m_handle = src.m_handle,
                              !.m_releaseFn = src.m_releaseFn],
          src |-> HandleReset(src),
          invoked |-> <<>>]
    ELSE [dst |-> dst, src |-> src, invoked |-> <<>>]

\* Mutant: move-assignment adopts the source's value and leaves it there too.
HandleMoveAssignCopies(dst, src, same) ==
    IF ~same
    THEN LET r == HandleRelease(dst)
         IN  [dst |-> [r.h EXCEPT !.m_handle = src.m_handle,
                                  !.m_releaseFn = src.m_releaseFn],
              src |-> src,
              invoked |-> r.invoked]
    ELSE [dst |-> dst, src |-> src, invoked |-> <<>>]

\* Handle::operator=(Handle&& other); same is (this == &other)
HandleMoveAssign(dst, src, same) ==
    IF ~same
    THEN LET r == HandleRelease(dst)
         IN  [dst |-> [r.h EXCEPT !.m_handle = src.m_handle,
                                  !.m_releaseFn = src.m_releaseFn],
              src |-> HandleReset(src),
              invoked |-> r.invoked]
    ELSE [dst |-> dst, src |-> src, invoked |-> <<>>]

\* Handle::Handle(Handle&& other) : Handle() { operator=(std::move(other)); }
HandleMoveConstruct(src) == HandleMoveAssign(HandleDefault, src, FALSE)

\* Handle::~Handle: if (!Release()) Reset();
HandleDestroy(h) ==
    LET r == HandleRelease(h)
    IN  [h |-> IF r.ret THEN r.h ELSE HandleReset(r.h), invoked |-> r.invoked]

-----------------------------------------------------------------------------
(* The engine's statement object (sqlite3_stmt), as the library documents    *)
(* it.  state: "ready" (prepared or reset), "run" (the last step returned a  *)
(* row), "done" (the last step returned SQLITE_DONE), "error" (the last step *)
(* failed).  pos counts the rows produced since the last reset; bind maps a  *)
(* parameter position to its value, NULL when unbound.  A call fails by      *)
(* injection (inj) where the engine may fail for reasons outside this layer  *)
(* (SQLITE_BUSY, SQLITE_NOMEM, a constraint, bad SQL text).                  *)

\* A parameter holds SQL NULL or a value; which value is nothing to this layer.
NULL == "NULL"

Vals == {NULL, "value"}

Params == 1..MaxParams

NoBindings == [i \in Params |-> NULL]

EngineNone == [state |-> "none", pos |-> 0, nRows |-> 0, bind |-> NoBindings]

\* sqlite3_prepare_v2 on non-empty text: a statement whose query has the
\* parameter positions Params and yields nR rows, or no statement at all
sqlite3_prepare_v2(nR, inj) ==
    IF inj
    THEN [e |-> EngineNone, rc |-> "ERROR", stmt |-> InvalidHandleValue]
    ELSE [e |-> [state |-> "ready", pos |-> 0, nRows |-> nR, bind |-> NoBindings],
          rc |-> "OK", stmt |-> 1]

\* sqlite3_reset: back to the start of the program, bindings kept; the status
\* is that of the most recent step
sqlite3_reset(e, inj) ==
    [e |-> [e EXCEPT !.state = "ready", !.pos = 0],
     rc |-> IF inj \/ e.state = "error" THEN "ERROR" ELSE "OK"]

\* sqlite3_step: a statement that is done or failed is reset first (the
\* engine's automatic reset), then the next row is produced if there is one
sqlite3_step(e, inj) ==
    IF inj
    THEN [e |-> [e EXCEPT !.state = "error"], rc |-> "ERROR"]
    ELSE LET from == IF e.state \in {"done", "error"} THEN 0 ELSE e.pos
         IN  IF from < e.nRows
             THEN [e |-> [e EXCEPT !.state = "run", !.pos = from + 1], rc |-> "ROW"]
             ELSE [e |-> [e EXCEPT !.state = "done", !.pos = from], rc |-> "DONE"]

\* sqlite3_clear_bindings: every parameter back to NULL
sqlite3_clear_bindings(e, inj) ==
    IF inj
    THEN [e |-> e, rc |-> "ERROR"]
    ELSE [e |-> [e EXCEPT !.bind = NoBindings], rc |-> "OK"]

\* sqlite3_bind_*: refused on a statement that has been stepped and not reset
\* (SQLITE_MISUSE) and on a position the query does not have (SQLITE_RANGE)
sqlite3_bind(e, index, v, inj) ==
    IF e.state # "ready" THEN [e |-> e, rc |-> "MISUSE"]
    ELSE IF ~(index \in Params) THEN [e |-> e, rc |-> "RANGE"]
    ELSE IF inj THEN [e |-> e, rc |-> "ERROR"]
    ELSE [e |-> [e EXCEPT !.bind[index] = v], rc |-> "OK"]

\* sqlite3_column_*: column c of the current row, NULL when there is no row
sqlite3_column(e, c) ==
    IF e.state = "run" THEN <<e.pos, c>> ELSE <<0, c>>

-----------------------------------------------------------------------------
(* The Statement methods, as functions of the record w they run in:          *)
(*   canFetch  m_canFetch                 eng    the engine statement        *)
(*   calls     engine calls issued so far  fault  which of them fails (0: none)*)
(*   exc       the exception in flight     out    the caller's output args    *)
(*   ret       Fetch's return value        got    the row Column last read    *)
(* A method entered with an exception in flight does nothing: the throw has  *)
(* already left the enclosing method.                                        *)

Inj(w) == Len(w.calls) + 1 = w.fault

\* An engine call goes into the log with its status; a step also with the
\* parameter values it ran with.
Called(w, fn, index, v, r) ==
    [w EXCEPT !.eng = r.e,
              !.calls = Append(@, [fn |-> fn, index |-> index, val |-> v,
                                   rc |-> r.rc,
                                   bind |-> IF fn = "step" THEN w.eng.bind
                                            ELSE NoBindings])]

Throw(w, what) == [w EXCEPT !.exc = what]

\* Mutant: Reset leaves the flag as it finds it.
StmtResetKeepsFlag(w) ==
    IF w.exc # "none" THEN w
    ELSE LET r == sqlite3_reset(w.eng, Inj(w))
             w1 == Called(w, "reset", 0, NULL, r)
         IN  IF r.rc # "OK" THEN Throw(w1, "sqlite") ELSE w1

\* Statement::Reset
StmtReset(w) ==
    IF w.exc # "none" THEN w
    ELSE LET r == sqlite3_reset(w.eng, Inj(w))
             w1 == Called(w, "reset", 0, NULL, r)
         IN  IF r.rc # "OK" THEN Throw(w1, "sqlite")
             ELSE [w1 EXCEPT !.canFetch = FALSE]

\* Mutant: a step that did not fail sets the flag, row or no row.
StmtStepSetsFlag(w) ==
    IF w.exc # "none" THEN w
    ELSE LET r == sqlite3_step(w.eng, Inj(w))
             w1 == Called(w, "step", 0, NULL, r)
         IN  IF (r.rc # "ROW") /\ (r.rc # "DONE") THEN Throw(w1, "sqlite")
             ELSE [w1 EXCEPT !.canFetch = TRUE]

\* Statement::Step
StmtStep(w) ==
    IF w.exc # "none" THEN w
    ELSE LET r == sqlite3_step(w.eng, Inj(w))
             w1 == Called(w, "step", 0, NULL, r)
         IN  IF (r.rc # "ROW") /\ (r.rc # "DONE") THEN Throw(w1, "sqlite")
             ELSE [w1 EXCEPT !.canFetch = (r.rc = "ROW")]

\* Mutant: Unbind drops the status of sqlite3_clear_bindings.
StmtUnbindDropsStatus(w) ==
    IF w.exc # "none" THEN w
    ELSE Called(w, "clear_bindings", 0, NULL,
                sqlite3_clear_bindings(w.eng, Inj(w)))

\* Statement::Unbind
StmtUnbind(w) ==
    IF w.exc # "none" THEN w
    ELSE LET r == sqlite3_clear_bindings(w.eng, Inj(w))
             w1 == Called(w, "clear_bindings", 0, NULL, r)
         IN  IF r.rc # "OK" THEN Throw(w1, "sqlite") ELSE w1

\* Statement::Bind<Index>(arg)
StmtBindAt(w, index, arg) ==
    IF w.exc # "none" THEN w
    ELSE LET r == sqlite3_bind(w.eng, index, arg, Inj(w))
             w1 == Called(w, "bind", index, arg, r)
         IN  IF r.rc # "OK" THEN Throw(w1, "sqlite") ELSE w1

\* Mutant: every argument of the pack is bound at the position of the first.
RECURSIVE StmtBindFromSamePosition(_, _, _)
StmtBindFromSamePosition(w, index, args) ==
    IF args = <<>> THEN w
    ELSE StmtBindFromSamePosition(StmtBindAt(w, index, Head(args)), index, Tail(args))

\* Statement::Bind<Index>(arg, args...): Bind<Index>(arg); Bind<Index + 1>(args...)
RECURSIVE StmtBindFrom(_, _, _)
StmtBindFrom(w, index, args) ==
    IF args = <<>> THEN w
    ELSE StmtBindFrom(StmtBindAt(w, index, Head(args)), index + 1, Tail(args))

\* Statement::Bind(arg, args...): Bind<1>(arg, args...)
StmtBind(w, args) == StmtBindFrom(w, 1, args)

\* Statement::Column<Column>(arg)
StmtColumnAt(w, column) ==
    IF w.exc # "none" THEN w
    ELSE [w EXCEPT !.out[column + 1] = sqlite3_column(w.eng, column)]

\* Statement::Column<Column>(arg, args...) over n output arguments
RECURSIVE StmtColumnFrom(_, _, _)
StmtColumnFrom(w, column, n) ==
    IF n = 0 THEN w
    ELSE StmtColumnFrom(StmtColumnAt(w, column), column + 1, n - 1)

\* Statement::Column(args...): Column<0>(arg, args...); Column() does nothing.
\* got is the engine's current row when Column ran (0: none).
StmtColumn(w, n) ==
    [StmtColumnFrom(w, 0, n) EXCEPT !.got = sqlite3_column(w.eng, 0)[1]]

\* Mutant: Execute keeps the bindings of the previous execution.
StmtExecuteKeepsBindings(w, args) ==
    IF args = <<>>
    THEN StmtStep(StmtReset(w))
    ELSE StmtStep(StmtBind(StmtReset(w), args))

\* Statement::Execute(void) and Statement::Execute(args...)
StmtExecute(w, args) ==
    IF args = <<>>
    THEN StmtStep(StmtUnbind(StmtReset(w)))
    ELSE StmtStep(StmtBind(StmtUnbind(StmtReset(w)), args))

\* Mutant: Fetch leaves the flag set after extracting the row.
StmtFetchKeepsFlag(w, n) ==
    LET w1 == IF ~w.canFetch THEN StmtStep(w) ELSE w
    IN  IF w1.exc # "none" THEN w1
        ELSE IF w1.canFetch
             THEN [StmtColumn(w1, n) EXCEPT !.ret = TRUE]
             ELSE [w1 EXCEPT !.ret = FALSE]

\* Mutant: Fetch extracts the columns whether its step found a row or not.
StmtFetchExtractsAnyway(w, n) ==
    LET w1 == IF ~w.canFetch THEN StmtStep(w) ELSE w
    IN  IF w1.exc # "none" THEN w1
        ELSE [StmtColumn(w1, n) EXCEPT !.canFetch = FALSE, !.ret = w1.canFetch]

\* Statement::Fetch(args...) over n output arguments
StmtFetch(w, n) ==
    LET w1 == IF ~w.canFetch THEN StmtStep(w) ELSE w
    IN  IF w1.exc # "none" THEN w1
        ELSE IF w1.canFetch
             THEN [StmtColumn(w1, n) EXCEPT !.canFetch = FALSE, !.ret = TRUE]
             ELSE [w1 EXCEPT !.ret = FALSE]

\* Mutant: the constructor asks the engine before it looks at the text.
StmtCreateChecksLate(w, sqlLen, nR) ==
    LET h0 == HandleNew(InvalidHandleValue, TRUE)
        r == sqlite3_prepare_v2(nR, Inj(w) \/ sqlLen = 0)
        w1 == [Called(w, "prepare", 0, NULL, r) EXCEPT !.canFetch = FALSE]
        h1 == [h0 EXCEPT !.m_handle = r.stmt]
    IN  IF sqlLen = 0
        THEN [w |-> Throw(w1, "invalid_argument"), h |-> h1]
        ELSE [w |-> IF r.rc # "OK" THEN Throw(w1, "sqlite") ELSE w1, h |-> h1]

\* Statement::Statement(db, sql): the object built, or the exception thrown.
\* sqlLen is sql.size(); h is m_stmt once the constructor has returned or thrown.
StmtCreate(w, sqlLen, nR) ==
    IF sqlLen = 0
    THEN [w |-> Throw(w, "invalid_argument"), h |-> HandleDefault]
    ELSE LET h0 == HandleNew(InvalidHandleValue, TRUE)
             r == sqlite3_prepare_v2(nR, Inj(w))
             w1 == [Called(w, "prepare", 0, NULL, r) EXCEPT !.canFetch = FALSE]
             h1 == [h0 EXCEPT !.m_handle = r.stmt]
         IN  [w |-> IF r.rc # "OK" THEN Throw(w1, "sqlite") ELSE w1, h |-> h1]

\* The end of a Statement's life: ~Handle on m_stmt, whose release function is
\* sqlite3_finalize
StmtDestroy(w, h) ==
    LET d == HandleDestroy(h)
    IN  IF d.invoked = <<>> THEN w
        ELSE [w EXCEPT !.eng = EngineNone,
                       !.calls = Append(@, [fn |-> "finalize", index |-> 0,
                                            val |-> NULL, rc |-> "OK",
                                            bind |-> NoBindings])]

\* sqlite3_open_v2: a connection and SQLITE_OK, or a failure status; on failure
\* the engine still hands back a connection (to read the error from and to
\* close) unless it could not allocate one (produced = FALSE: NULL is written)
sqlite3_open_v2(produced, inj) ==
    IF inj
    THEN [rc |-> "ERROR", db |-> IF produced THEN 1 ELSE InvalidHandleValue]
    ELSE [rc |-> "OK", db |-> 1]

\* Mutant: the constructor leaves m_db without its release function.
DbCreateNoCloser(w, produced) ==
    LET r == sqlite3_open_v2(produced, Inj(w))
        w1 == Called(w, "open", r.db, NULL, [e |-> w.eng, rc |-> r.rc])
        h1 == [HandleDefault EXCEPT !.m_handle = r.db]
    IN  [w |-> IF r.rc # "OK" THEN Throw(w1, "sqlite") ELSE w1, h |-> h1]

\* Database::Database(filename, flags): m_db = { nullptr, &sqlite3_close_v2 },
\* then sqlite3_open_v2 writes the connection through m_db.GetAddressOf().
\* h is m_db once the constructor has returned or thrown.
DbCreate(w, produced) ==
    LET h0 == HandleMoveAssign(HandleDefault,
                               HandleNew(InvalidHandleValue, TRUE), FALSE).dst
        r == sqlite3_open_v2(produced, Inj(w))
        w1 == Called(w, "open", r.db, NULL, [e |-> w.eng, rc |-> r.rc])
        h1 == [h0 EXCEPT !.m_handle = r.db]
    IN  [w |-> IF r.rc # "OK" THEN Throw(w1, "sqlite") ELSE w1, h |-> h1]

\* The end of a Database's life (or of its constructor's, when that throws):
\* ~Handle on m_db, whose release function is sqlite3_close_v2
DbDestroy(w, h) ==
    LET d == HandleDestroy(h)
    IN  IF d.invoked = <<>> THEN w
        ELSE [w EXCEPT !.calls = Append(@, [fn |-> "close", index |-> 0,
                                            val |-> NULL, rc |-> "OK",
                                            bind |-> NoBindings])]

-----------------------------------------------------------------------------
(* Spec: one Database that is opened and closed, one Statement object that   *)
(* is prepared, used and destroyed; SpecDb: the Database, the Statement's    *)
(* construction and Database::Execute running on a temporary Statement.      *)

Cols == 1..MaxCols

\* What an output argument holds before the call that is handed it.
Unset == <<-1, 0>>

NoOut == [c \in Cols |-> Unset]

ArgLists == SeqsUpTo(Vals, MaxParams)

\* Which engine call of an operation issuing at most n fails: none, or one
Faults(n) == 0..n

MaxLog == MaxRows + 2

NoStmt == [live |-> FALSE, m_stmt |-> HandleDefault, m_canFetch |-> FALSE]

NoLast == [op |-> "none", args |-> <<>>, n |-> 0, sqlLen |-> 0, exc |-> "none",
           ret |-> FALSE,
           pre |-> [canFetch |-> FALSE, state |-> "none", bound |-> {}]]

\* What the operation found: the flag, the engine's state and the parameter
\* positions holding a value.
Pre == [canFetch |-> stmt.m_canFetch, state |-> eng.state,
        bound |-> {i \in Params : eng.bind[i] # NULL}]

\* The record a method of the Statement object starts in.
W0(fault) == [canFetch |-> stmt.m_canFetch, eng |-> eng, calls |-> <<>>,
              fault |-> fault, exc |-> "none", out |-> NoOut, ret |-> FALSE,
              got |-> 0]

\* The record a constructor starts in: no engine statement yet.
WNew(fault) == [canFetch |-> FALSE, eng |-> EngineNone, calls |-> <<>>,
                fault |-> fault, exc |-> "none", out |-> NoOut, ret |-> FALSE,
              got |-> 0]

NCalls(cs, fn, rc) == Cardinality({i \in 1..Len(cs) : cs[i].fn = fn /\ cs[i].rc = rc})

\* Engine statements acquired less those finalized by the calls cs.
Acquired(cs) == NCalls(cs, "prepare", "OK") - NCalls(cs, "finalize", "OK")

NoDb == [live |-> FALSE, m_db |-> HandleDefault]

\* Connections opened less those closed by the calls cs.
Opened(cs) ==
    Cardinality({i \in 1..Len(cs) : cs[i].fn = "open"
                                     /\ cs[i].index # InvalidHandleValue})
    - NCalls(cs, "close", "OK")

InitDatabase ==
    /\ db = NoDb
    /\ connLive = 0

InitStmt ==
    /\ stmt = NoStmt
    /\ eng = EngineNone
    /\ engLive = 0
    /\ calls = <<>>
    /\ last = NoLast
    /\ out = NoOut
    /\ fetchLog = <<>>
    /\ runKind = "none"

\* What a method of the live Statement leaves behind.
Method(op, w, args, n, kind) ==
    /\ stmt' = [stmt EXCEPT !.m_canFetch = w.canFetch]
    /\ eng' = w.eng
    /\ calls' = w.calls
    /\ out' = w.out
    /\ last' = [NoLast EXCEPT !.op = op, !.args = args, !.n = n, !.exc = w.exc,
                              !.ret = w.ret, !.pre = Pre]
    /\ runKind' = IF w.exc = "none" THEN kind ELSE "none"
    /\ UNCHANGED <<engLive, hvars, bvars, dvars>>

\* Statement stmt = db.PrepareStatement(sql);  (also Statement stmt{db, sql})
PrepareStatement(sqlLen, nR, fault) ==
    /\ db.live
    /\ ~stmt.live
    /\ LET c == StmtCreate(WNew(fault), sqlLen, nR)
           ok == c.w.exc = "none"
           w == IF ok THEN c.w ELSE StmtDestroy(c.w, c.h)
       IN  /\ stmt' = IF ok THEN [live |-> TRUE, m_stmt |-> c.h,
                                  m_canFetch |-> w.canFetch]
                      ELSE NoStmt
           /\ eng' = w.eng
           /\ engLive' = engLive + Acquired(w.calls)
           /\ calls' = w.calls
           /\ last' = [NoLast EXCEPT !.op = "PrepareStatement", !.sqlLen = sqlLen,
                                     !.exc = w.exc, !.pre = Pre]
           /\ runKind' = IF ok THEN "fresh" ELSE "none"
    /\ fetchLog' = <<>>
    /\ out' = NoOut
    /\ UNCHANGED <<hvars, bvars, dvars>>

\* the Statement goes out of scope
DestroyStatement ==
    /\ stmt.live
    /\ LET w == StmtDestroy(W0(0), stmt.m_stmt)
       IN  /\ eng' = w.eng
           /\ engLive' = engLive + Acquired(w.calls)
           /\ calls' = w.calls
    /\ stmt' = NoStmt
    /\ last' = [NoLast EXCEPT !.op = "DestroyStatement", !.pre = Pre]
    /\ runKind' = "none"
    /\ fetchLog' = <<>>
    /\ out' = NoOut
    /\ UNCHANGED <<hvars, bvars, dvars>>

\* stmt.Reset();
Reset(fault) ==
    /\ stmt.live
    /\ Method("Reset", StmtReset(W0(fault)), <<>>, 0, "reset")
    /\ fetchLog' = <<>>

\* stmt.Step();
Step(fault) ==
    /\ stmt.live
    /\ Method("Step", StmtStep(W0(fault)), <<>>, 0, "none")
    /\ fetchLog' = <<>>

\* stmt.Unbind();
Unbind(fault) ==
    /\ stmt.live
    /\ Method("Unbind", StmtUnbind(W0(fault)), <<>>, 0, "none")
    /\ fetchLog' = <<>>

\* stmt.Bind(args...);
Bind(args, fault) ==
    /\ stmt.live
    /\ args # <<>>
    /\ Method("Bind", StmtBind(W0(fault), args), args, 0, "none")
    /\ fetchLog' = <<>>

\* stmt.Column(outs...);
Column(n) ==
    /\ stmt.live
    /\ Method("Column", StmtColumn(W0(0), n), <<>>, n, "none")
    /\ fetchLog' = <<>>

\* stmt.Execute(args...);
Execute(args, fault) ==
    /\ stmt.live
    /\ Method("Execute", StmtExecute(W0(fault), args), args, 0, "execute")
    /\ fetchLog' = <<>>

\* stmt.Fetch(outs...);
Fetch(n, fault) ==
    /\ stmt.live
    /\ LET w == StmtFetch(W0(fault), n)
       IN  /\ Method("Fetch", w, <<>>, n, runKind)
           /\ fetchLog' = IF w.exc # "none" THEN <<>>
                          ELSE IF Len(fetchLog) < MaxLog
                               THEN Append(fetchLog, [ret |-> w.ret, row |-> w.got])
                               ELSE fetchLog

\* db.Execute(sql, args...): PrepareStatement(sql).Execute(args...) on a
\* temporary that is destroyed when the full expression ends, thrown or not
DatabaseExecute(sqlLen, args, nR, fault) ==
    /\ db.live
    /\ LET c == StmtCreate(WNew(fault), sqlLen, nR)
           w1 == StmtExecute(c.w, args)
           w == StmtDestroy(w1, c.h)
       IN  /\ calls' = w.calls
           /\ engLive' = engLive + Acquired(w.calls)
           /\ last' = [NoLast EXCEPT !.op = "DatabaseExecute", !.args = args,
                                     !.sqlLen = sqlLen, !.exc = w.exc]
    /\ runKind' = "none"
    /\ fetchLog' = <<>>
    /\ out' = NoOut
    /\ UNCHANGED <<stmt, eng, hvars, bvars, dvars>>

\* Database db{filename, flags};
OpenDatabase(produced, fault) ==
    /\ ~db.live
    /\ LET c == DbCreate(W0(fault), produced)
           ok == c.w.exc = "none"
           w == IF ok THEN c.w ELSE DbDestroy(c.w, c.h)
       IN  /\ db' = IF ok THEN [live |-> TRUE, m_db |-> c.h] ELSE NoDb
           /\ connLive' = connLive + Opened(w.calls)
           /\ calls' = w.calls
           /\ last' = [NoLast EXCEPT !.op = "OpenDatabase", !.exc = w.exc,
                                     !.pre = Pre]
    /\ runKind' = "none"
    /\ fetchLog' = <<>>
    /\ out' = NoOut
    /\ UNCHANGED <<stmt, eng, engLive, hvars, bvars>>

\* db goes out of scope, after the Statement made from it
CloseDatabase ==
    /\ db.live
    /\ ~stmt.live
    /\ LET w == DbDestroy(W0(0), db.m_db)
       IN  /\ connLive' = connLive + Opened(w.calls)
           /\ calls' = w.calls
    /\ db' = NoDb
    /\ last' = [NoLast EXCEPT !.op = "CloseDatabase", !.pre = Pre]
    /\ runKind' = "none"
    /\ fetchLog' = <<>>
    /\ out' = NoOut
    /\ UNCHANGED <<stmt, eng, engLive, hvars, bvars>>

-----------------------------------------------------------------------------
(* Binding<T>: what Bind stores in a parameter and what Column reads from a  *)
(* result column holding that value.  A stored value is a cell               *)
(* [type, text, int]: SQL NULL, a text or a blob (text holds its bytes), or  *)
(* an integer (int holds its 64 bits).  A C++ value is [has, text, tail,     *)
(* int]: has is has_value() of an optional (TRUE for a plain value); text    *)
(* are the bytes of a string, a view, a span or a vector; tail are the bytes *)
(* that follow the viewed range in memory (for a text view up to and         *)
(* including the first zero byte, <<0>> alone when the view ends where a     *)
(* string's terminator stands); int are an integer's bits.                   *)
(*                                                                           *)
(* An integer of width w is its two's complement representation, a sequence  *)
(* of w bits with the least significant bit first, so that a conversion      *)
(* between widths is what the language defines: the value modulo 2^w.        *)

Bytes == 0..MaxByte

Texts == SeqsUpTo(Bytes, MaxLen)

Tails == {Append(t, 0) : t \in SeqsUpTo(1..MaxByte, MaxTail)}

\* The widths, in bits, of the integral types
Widths == {8, 16, 32, 64}

\* An integral type T: std::is_signed_v<T> and 8 * sizeof(T)
IntegralTypes == [signed : BOOLEAN, width : Widths]

Int32T == [signed |-> TRUE, width |-> 32]

\* The w-bit integer whose low k bits are set: 2^k - 1
Ones(k, w) == [i \in 1..w |-> IF i <= k THEN 1 ELSE 0]

\* ~b
Not(b) == [i \in 1..Len(b) |-> 1 - b[i]]

\* Values of a w-bit type: 2^k - 1 and its complement for each k, among them
\* 0, 1, -1 (the largest unsigned value), the least and the largest signed value
Ints(w) == {Ones(k, w) : k \in 0..w} \cup {Not(Ones(k, w)) : k \in 0..w}

\* static_cast to an integral type of w bits from one whose value has the bits
\* b: the low w bits, the value being extended by its sign when the source
\* type is signed and by zeros when it is not
StaticCast(b, signed, w) ==
    [i \in 1..w |-> IF i <= Len(b) THEN b[i]
                    ELSE IF signed THEN b[Len(b)] ELSE 0]

CellNull == [type |-> "null", text |-> <<>>, int |-> <<>>]

\* strlen: the bytes before the first zero byte
RECURSIVE StrLen(_)
StrLen(z) == IF Head(z) = 0 THEN 0 ELSE 1 + StrLen(Tail(z))

\* sqlite3_bind_null
sqlite3_bind_null == CellNull

\* sqlite3_bind_text(pStmt, index, z, n, SQLITE_TRANSIENT): the engine copies n
\* bytes from z, or, when n is negative, the bytes up to the first zero byte
sqlite3_bind_text(z, n) ==
    [type |-> "text", text |-> SubSeq(z, 1, IF n < 0 THEN StrLen(z) ELSE n),
     int |-> <<>>]

\* sqlite3_bind_int64(pStmt, index, sqlite3_int64): the engine stores the value
sqlite3_bind_int64(v) == [type |-> "integer", text |-> <<>>, int |-> v]

\* sqlite3_bind_int(pStmt, index, int): sqlite3_bind_int64 of (sqlite3_int64)v
sqlite3_bind_int(v) == sqlite3_bind_int64(StaticCast(v, TRUE, 64))

\* sqlite3_column_type
sqlite3_column_type(cell) == cell.type

\* sqlite3_bind_blob64(pStmt, index, data, n, SQLITE_TRANSIENT): the engine
\* copies n bytes from data; a null data pointer stores NULL
sqlite3_bind_blob64(isNull, z, n) ==
    IF isNull THEN CellNull
    ELSE [type |-> "blob", text |-> SubSeq(z, 1, n), int |-> <<>>]

\* sqlite3_column_bytes: the byte length of a text or a blob, 0 for NULL
sqlite3_column_bytes(cell) ==
    IF cell.type \in {"text", "blob"} THEN Len(cell.text) ELSE 0

\* sqlite3_column_blob: the bytes of a blob or a text; for NULL and for a blob
\* of no bytes a null pointer, from which nothing can be read
sqlite3_column_blob(cell) ==
    IF cell.type \in {"text", "blob"} THEN cell.text ELSE <<>>

\* std::memcpy(dest, src, n) on the memory that starts at dest
memcpy(mem, src, n) == [i \in 1..Len(mem) |-> IF i <= n THEN src[i] ELSE mem[i]]

\* std::min
Min(a, b) == IF a < b THEN a ELSE b

\* std::vector<std::uint8_t>::resize(n): cut, or filled up with zero bytes
resize(v, n) == [i \in 1..n |-> IF i <= Len(v) THEN v[i] ELSE 0]

\* sqlite3_column_text: the bytes of a text, followed by a zero byte
sqlite3_column_text(cell) ==
    IF cell.type = "text" THEN Append(cell.text, 0) ELSE <<>>

\* sqlite3_column_int64: a stored integer, 0 for NULL
sqlite3_column_int64(cell) ==
    IF cell.type # "integer" THEN Ones(0, 64) ELSE cell.int

\* sqlite3_column_int: (int)sqlite3_column_int64, its low 32 bits
sqlite3_column_int(cell) == StaticCast(sqlite3_column_int64(cell), TRUE, 32)

\* std::string::c_str(): the bytes and a terminator
c_str(text) == Append(text, 0)

\* Binding<std::nullptr_t>::Bind
BindNullptr == sqlite3_bind_null

\* Binding<std::nullopt_t>::Bind
BindNullopt == BindNullptr

\* Binding<const char*>::Bind: the length is left to the engine (-1)
BindCharPtr(z) == sqlite3_bind_text(z, -1)

\* Binding<std::string>::Bind
BindStdString(arg) == BindCharPtr(c_str(arg.text))

\* Binding<std::string_view>::Bind: data() points at the view's first byte
BindStringView(arg) == BindCharPtr(arg.text \o arg.tail)

\* Binding<std::string>::Column
ColumnStdString(cell) ==
    LET len == sqlite3_column_bytes(cell)
        pText == sqlite3_column_text(cell)
    IN  SubSeq(pText, 1, len)

\* Mutant: every integral type is bound as a 32-bit integer.
BindIntegralAs32(T, arg) == sqlite3_bind_int(StaticCast(arg.int, T.signed, 32))

\* Binding<std::integral T>::Bind
BindIntegral(T, arg) ==
    IF T.width < 64
    THEN sqlite3_bind_int(StaticCast(arg.int, T.signed, 32))
    ELSE sqlite3_bind_int64(StaticCast(arg.int, T.signed, 64))

\* Binding<std::integral T>::Column: the bits left in arg
ColumnIntegral(T, cell) ==
    IF T.width < 64
    THEN StaticCast(sqlite3_column_int(cell), TRUE, T.width)
    ELSE StaticCast(sqlite3_column_int64(cell), TRUE, T.width)

\* Binding<std::int32_t>::Bind
BindInt32(arg) == BindIntegral(Int32T, arg)

\* Binding<std::int32_t>::Column
ColumnInt32(cell) == ColumnIntegral(Int32T, cell)

\* Binding<std::span<const std::uint8_t>>::Bind; isNull: arg.data() is a null
\* pointer, as it may be for a span of no bytes
BindConstSpan(arg, isNull) == sqlite3_bind_blob64(isNull, arg.text, Len(arg.text))

\* Binding<std::span<std::uint8_t>>::Bind
BindSpan(arg, isNull) == BindConstSpan(arg, isNull)

\* Binding<std::vector<std::uint8_t>>::Bind
BindVector(arg, isNull) == BindConstSpan(arg, isNull)

\* Mutant: the column is copied whole, whatever the length of the view.
ColumnSpanCopiesAll(cell, arg) ==
    LET len == sqlite3_column_bytes(cell)
        pData == sqlite3_column_blob(cell)
        size == Len(arg.text)
        mem == memcpy(arg.text \o arg.tail, pData, len)
    IN  [arg EXCEPT !.text = SubSeq(mem, 1, size),
                    !.tail = SubSeq(mem, size + 1, Len(mem))]

\* Binding<std::span<std::uint8_t>>::Column: the view (text) and the memory
\* behind it (tail) after the call
ColumnSpan(cell, arg) ==
    LET len == sqlite3_column_bytes(cell)
        pData == sqlite3_column_blob(cell)
        size == Len(arg.text)
        mem == memcpy(arg.text \o arg.tail, pData, Min(len, size))
    IN  [arg EXCEPT !.text = SubSeq(mem, 1, size),
                    !.tail = SubSeq(mem, size + 1, Len(mem))]

\* Mutant: the vector is read into at the length it has.
ColumnVectorNoResize(cell, arg) ==
    [arg EXCEPT !.text = ColumnSpan(cell, [arg EXCEPT !.tail = <<>>]).text]

\* Binding<std::vector<std::uint8_t>>::Column: resize, then the span rule over
\* the vector's elements
ColumnVector(cell, arg) ==
    LET len == sqlite3_column_bytes(cell)
        resized == [arg EXCEPT !.text = resize(arg.text, len), !.tail = <<>>]
    IN  [arg EXCEPT !.text = ColumnSpan(cell, resized).text]

Absent == [has |-> FALSE, text |-> <<>>, tail |-> <<0>>, int |-> <<>>]

TextValue(text) == [has |-> TRUE, text |-> text, tail |-> <<0>>, int |-> <<>>]

\* A span or a vector of bytes, with the memory behind a span
BlobValue(bytes, after) == [has |-> TRUE, text |-> bytes, tail |-> after, int |-> <<>>]

IntValue(v) == [has |-> TRUE, text |-> <<>>, tail |-> <<0>>, int |-> v]

\* Binding<std::optional<T>>::Bind, T one of "string", "int32"
BindOptional(T, arg) ==
    IF arg.has
    THEN IF T = "string" THEN BindStdString(arg) ELSE BindInt32(arg)
    ELSE BindNullptr

\* Binding<std::optional<T>>::Column
ColumnOptional(T, cell) ==
    IF sqlite3_column_type(cell) = "null" THEN Absent
    ELSE IF T = "string" THEN TextValue(ColumnStdString(cell))
    ELSE IntValue(ColumnInt32(cell))

-----------------------------------------------------------------------------
\* SpecBind starts with nothing bound.
NoType == [signed |-> FALSE, width |-> 0]

Idle == [phase |-> "idle", bkind |-> "none", btype |-> NoType, arg |-> Absent,
         cell |-> CellNull, ckind |-> "none", ctype |-> NoType, dest |-> Absent,
         res |-> Absent]

InitBind == bnd = Idle

-----------------------------------------------------------------------------
(* SpecHandle: Handle objects in NSlots places, built over fresh resource    *)
(* values (or the sentinel), moved, released and destroyed in any order.     *)

Dead == [live |-> FALSE, m_handle |-> InvalidHandleValue, m_releaseFn |-> FALSE]

Obj(h) == [live |-> TRUE, m_handle |-> h.m_handle, m_releaseFn |-> h.m_releaseFn]

Val(o) == [m_handle |-> o.m_handle, m_releaseFn |-> o.m_releaseFn]

\* The release counts after the release function was called on each of vs.
RECURSIVE Count(_, _)
Count(cnt, vs) ==
    IF vs = <<>> THEN cnt
    ELSE Count([cnt EXCEPT ![Head(vs)] = @ + 1], Tail(vs))

\* The last operation: for Release the handle before and after it, for a move
\* the source before and after it.
NoOp == [op |-> "none", pre |-> HandleDefault, post |-> HandleDefault,
         ret |-> FALSE, invoked |-> <<>>]

\* No object of any class has been constructed.
InitHandle ==
    /\ handles = [s \in Slots |-> Dead]
    /\ released = [r \in Resources |-> 0]
    /\ nextRes = 1
    /\ acquired = {}
    /\ lastH = NoOp
    /\ InitStmt
    /\ InitBind
    /\ InitDatabase

\* Handle h(value, fn): value is a fresh resource or the sentinel, fn may be empty
Construct(s, fresh, fn) ==
    /\ ~handles[s].live
    /\ fresh => nextRes <= MaxRes
    /\ LET v == IF fresh THEN nextRes ELSE InvalidHandleValue
       IN  /\ handles' = [handles EXCEPT ![s] = Obj(HandleNew(v, fn))]
           /\ nextRes' = IF fresh THEN nextRes + 1 ELSE nextRes
           /\ acquired' = IF fresh /\ fn THEN acquired \cup {v} ELSE acquired
    /\ lastH' = [NoOp EXCEPT !.op = "Construct"]
    /\ UNCHANGED <<released, svars, bvars, dvars>>

\* Handle h; (the default constructor)
DefaultConstruct(s) ==
    /\ ~handles[s].live
    /\ handles' = [handles EXCEPT ![s] = Obj(HandleDefault)]
    /\ lastH' = [NoOp EXCEPT !.op = "DefaultConstruct"]
    /\ UNCHANGED <<released, nextRes, acquired, svars, bvars, dvars>>

\* Handle d(std::move(s));
MoveConstruct(d, s) ==
    /\ ~handles[d].live
    /\ handles[s].live
    /\ LET r == HandleMoveConstruct(Val(handles[s]))
       IN  /\ handles' = [handles EXCEPT ![d] = Obj(r.dst), ![s] = Obj(r.src)]
           /\ released' = Count(released, r.invoked)
           /\ lastH' = [NoOp EXCEPT !.op = "MoveConstruct", !.invoked = r.invoked,
                                    !.pre = Val(handles[s]), !.post = r.src]
    /\ UNCHANGED <<nextRes, acquired, svars, bvars, dvars>>

\* d = std::move(s); d and s may be the same object
MoveAssign(d, s) ==
    /\ handles[d].live
    /\ handles[s].live
    /\ LET r == HandleMoveAssign(Val(handles[d]), Val(handles[s]), d = s)
       IN  /\ handles' = IF d = s
                         THEN [handles EXCEPT ![d] = Obj(r.dst)]
                         ELSE [handles EXCEPT ![d] = Obj(r.dst), ![s] = Obj(r.src)]
           /\ released' = Count(released, r.invoked)
           /\ lastH' = [NoOp EXCEPT !.op = IF d = s THEN "SelfMoveAssign" ELSE "MoveAssign",
                                    !.invoked = r.invoked,
                                    !.pre = Val(handles[s]), !.post = r.src]
    /\ UNCHANGED <<nextRes, acquired, svars, bvars, dvars>>

\* s.Release();
Release(s) ==
    /\ handles[s].live
    /\ LET r == HandleRelease(Val(handles[s]))
       IN  /\ handles' = [handles EXCEPT ![s] = Obj(r.h)]
           /\ released' = Count(released, r.invoked)
           /\ lastH' = [op |-> "Release", pre |-> Val(handles[s]), post |-> r.h,
                        ret |-> r.ret, invoked |-> r.invoked]
    /\ UNCHANGED <<nextRes, acquired, svars, bvars, dvars>>

\* s goes out of scope
Destroy(s) ==
    /\ handles[s].live
    /\ LET r == HandleDestroy(Val(handles[s]))
       IN  /\ handles' = [handles EXCEPT ![s] = Dead]
           /\ released' = Count(released, r.invoked)
           /\ lastH' = [NoOp EXCEPT !.op = "Destroy", !.invoked = r.invoked]
    /\ UNCHANGED <<nextRes, acquired, svars, bvars, dvars>>

NextHandle ==
    \/ \E s \in Slots, fresh \in BOOLEAN, fn \in BOOLEAN : Construct(s, fresh, fn)
    \/ \E s \in Slots : DefaultConstruct(s)
    \/ \E d \in Slots, s \in Slots : MoveConstruct(d, s)
    \/ \E d \in Slots, s \in Slots : MoveAssign(d, s)
    \/ \E s \in Slots : Release(s)
    \/ \E s \in Slots : Destroy(s)

SpecHandle == InitHandle /\ [][NextHandle]_vars

\* Spec starts with no object constructed.
Init == InitHandle

Next ==
    \/ \E produced \in BOOLEAN, f \in Faults(1) : OpenDatabase(produced, f)
    \/ CloseDatabase
    \/ PrepareStatement(0, 0, 0)
    \/ \E nR \in 0..MaxRows, f \in Faults(1) : PrepareStatement(1, nR, f)
    \/ DestroyStatement
    \/ \E f \in Faults(1) : Reset(f)
    \/ \E f \in Faults(1) : Step(f)
    \/ \E f \in Faults(1) : Unbind(f)
    \/ \E args \in ArgLists : \E f \in Faults(Len(args)) : Bind(args, f)
    \/ \E n \in 0..MaxCols : Column(n)
    \/ \E args \in ArgLists : \E f \in Faults(Len(args) + 3) : Execute(args, f)
    \/ \E n \in 0..MaxCols, f \in Faults(1) : Fetch(n, f)

\* SpecDb: the Database is opened and closed, and statements are made and
\* dropped through it: PrepareStatement, the end of the Statement's life, and
\* Database::Execute on its temporary.
NextDb ==
    \/ \E produced \in BOOLEAN, f \in Faults(1) : OpenDatabase(produced, f)
    \/ CloseDatabase
    \/ PrepareStatement(0, 0, 0)
    \/ \E nR \in 0..MaxRows, f \in Faults(1) : PrepareStatement(1, nR, f)
    \/ DestroyStatement
    \/ \E args \in ArgLists : DatabaseExecute(0, args, 0, 0)
    \/ \E args \in ArgLists, nR \in 0..MaxRows :
           \E f \in Faults(Len(args) + 4) : DatabaseExecute(1, args, nR, f)

SpecDb == Init /\ [][NextDb]_vars

Spec == Init /\ [][Next]_vars

-----------------------------------------------------------------------------
(* Claims about Handle, checked under SpecHandle. *)

Holders(r) == {s \in Slots : handles[s].live /\ handles[s].m_handle = r}

\* C4: over every sequence of constructions with a fresh value and a release
\* function, move-constructions, move-assignments (onto an owning handle and
\* onto itself), Release calls and destructions, the release function is called
\* at most once on each acquired value, a value not yet released is still owned
\* by a live handle that can release it, and once no handle is left every
\* acquired value has been released exactly once.
C4_ReleasedExactlyOnce ==
    \A r \in acquired :
        /\ released[r] <= 1
        /\ released[r] = 0 =>
               \E s \in Holders(r) : handles[s].m_releaseFn
        /\ (\A s \in Slots : ~handles[s].live) => released[r] = 1

\* A move-assignment onto a handle that owned a resource has just released it,
\* while another acquired resource is still owned.
C4_Witness ==
    /\ lastH.op = "MoveAssign"
    /\ lastH.invoked # <<>>
    /\ \E r \in acquired : released[r] = 0 /\ Holders(r) # {}

\* C9 as stated: Release() calls the release function exactly when the held
\* value is not the sentinel, returns true exactly then, and leaves the handle
\* with the sentinel and no release function, for every handle state.
C9_Original ==
    lastH.op = "Release" =>
        LET held == lastH.pre.m_handle # InvalidHandleValue
        IN  /\ lastH.invoked = IF held THEN <<lastH.pre.m_handle>> ELSE <<>>
            /\ lastH.ret = held
            /\ lastH.post = HandleDefault

\* C9 amended: Release() calls the release function exactly when the held value
\* is not the sentinel and a release function is present, and returns true
\* exactly then, leaving the sentinel and no release function; in every other
\* state it calls nothing, returns false and leaves the handle as it was.
C9_ReleaseContract ==
    lastH.op = "Release" =>
        LET owns == (lastH.pre.m_handle # InvalidHandleValue) /\ lastH.pre.m_releaseFn
        IN  /\ lastH.invoked = IF owns THEN <<lastH.pre.m_handle>> ELSE <<>>
            /\ lastH.ret = owns
            /\ lastH.post = IF owns THEN HandleDefault ELSE lastH.pre

\* Release() has just released an owned value.
C9_Witness ==
    /\ lastH.op = "Release"
    /\ lastH.ret
    /\ lastH.pre.m_handle # InvalidHandleValue
    /\ lastH.post = HandleDefault

\* C14: no two live handles hold the same resource value, in every state
\* reached by constructions over fresh values, moves, Release calls and
\* destructions; a move-construction or a move-assignment from another handle
\* leaves the source with the sentinel and no release function, and the value
\* it held, if any, with exactly one handle, together with its release function.
C14_SingleOwner ==
    /\ \A r \in Resources : Cardinality(Holders(r)) <= 1
    /\ lastH.op \in {"MoveConstruct", "MoveAssign"} =>
           /\ lastH.post = HandleDefault
           /\ lastH.pre.m_handle # InvalidHandleValue =>
                  \E s \in Slots : /\ Holders(lastH.pre.m_handle) = {s}
                                   /\ Val(handles[s]) = lastH.pre

\* A move-assignment has taken a resource from one handle to another that
\* owned a different one, and both handles are alive.
C14_Witness ==
    /\ lastH.op = "MoveAssign"
    /\ lastH.pre.m_handle # InvalidHandleValue
    /\ lastH.invoked # <<>>
    /\ Holders(lastH.pre.m_handle) # {}
    /\ \A s \in Slots : handles[s].live

-----------------------------------------------------------------------------
(* Claims about the Statement cursor, checked under Spec.  fetchLog holds    *)
(* the results of the Fetch calls made one after the other since the last    *)
(* other operation; runKind says whether that was a successful prepare,      *)
(* Reset or Execute.                                                         *)

CleanRun == runKind \in {"fresh", "reset", "execute"}

\* C1: after a successful prepare, Reset or Execute on a query of N rows, the
\* k-th consecutive Fetch returns true and reads row k for each k <= N, and
\* the (N+1)-th returns false.
C1_FetchDeliversEachRowOnce ==
    CleanRun =>
        \A k \in 1..Len(fetchLog) :
            /\ k <= eng.nRows => fetchLog[k] = [ret |-> TRUE, row |-> k]
            /\ k = eng.nRows + 1 => ~fetchLog[k].ret

\* After an Execute on a query of at least two rows, every row was fetched and
\* the next Fetch returned false.
C1_Witness ==
    /\ runKind = "execute"
    /\ eng.nRows >= 2
    /\ Len(fetchLog) = eng.nRows + 1
    /\ ~fetchLog[eng.nRows + 1].ret

\* C2: once a Fetch has returned false, every later Fetch made with no other
\* operation in between returns false.
C2_Original ==
    \A i, j \in 1..Len(fetchLog) :
        (i < j /\ ~fetchLog[i].ret) => ~fetchLog[j].ret

\* C3: after a Step that raised, the row-available flag is false.
C3_Original ==
    (last.op = "Step" /\ last.exc # "none") => ~stmt.m_canFetch

\* The calls Execute(args...) is to issue, in order.
Expected(args) ==
    <<[fn |-> "reset", index |-> 0, val |-> NULL],
      [fn |-> "clear_bindings", index |-> 0, val |-> NULL]>>
    \o [i \in 1..Len(args) |-> [fn |-> "bind", index |-> i, val |-> args[i]]]
    \o <<[fn |-> "step", index |-> 0, val |-> NULL]>>

Succeeded(c) == IF c.fn = "step" THEN c.rc \in {"ROW", "DONE"} ELSE c.rc = "OK"

\* C5: Execute(a1..ak) issues reset, clear_bindings, bind of ai at position i
\* for i = 1..k, step, in that order; it stops at the first call that does not
\* succeed and raises exactly then; and the step runs with a1..ak at positions
\* 1..k and NULL at every other position.
C5_ExecuteRebindsFromScratch ==
    last.op = "Execute" =>
        LET exp == Expected(last.args)
            n == Len(calls)
        IN  /\ n \in 1..Len(exp)
            /\ \A i \in 1..n : /\ calls[i].fn = exp[i].fn
                               /\ calls[i].index = exp[i].index
                               /\ calls[i].val = exp[i].val
            /\ \A i \in 1..(n - 1) : Succeeded(calls[i])
            /\ (last.exc = "none") = Succeeded(calls[n])
            /\ Succeeded(calls[n]) => n = Len(exp)
            /\ calls[n].fn = "step" =>
                   calls[n].bind = [i \in Params |->
                                       IF i <= Len(last.args) THEN last.args[i]
                                       ELSE NULL]

\* An Execute with fewer arguments than the positions bound before it has run
\* its step.
C5_Witness ==
    /\ last.op = "Execute"
    /\ last.exc = "none"
    /\ \E i \in last.pre.bound : i > Len(last.args)
    /\ calls[Len(calls)].fn = "step"

\* C8: after a Bind that returned, the row-available flag is false.
C8_Original ==
    (last.op = "Bind" /\ last.exc = "none") => ~stmt.m_canFetch

\* C12: Bind(a1..ak) issues the bind of ai at position i for i = 1, 2, ... in
\* that order, one call per argument, stops at the first that does not succeed
\* and raises exactly then, so no later position is bound; Column(o1..ok)
\* leaves column i-1 of the current row in oi, and touches no other output.
C12_ArgumentsGoToConsecutivePositions ==
    /\ last.op = "Bind" =>
           LET k == Len(last.args)
               n == Len(calls)
           IN  /\ n \in 1..k
               /\ \A i \in 1..n : /\ calls[i].fn = "bind"
                                  /\ calls[i].index = i
                                  /\ calls[i].val = last.args[i]
               /\ \A i \in 1..(n - 1) : calls[i].rc = "OK"
               /\ (last.exc = "none") = (calls[n].rc = "OK")
               /\ calls[n].rc = "OK" => n = k
               /\ \A i \in Params :
                      eng.bind[i] = IF i <= n /\ calls[i].rc = "OK" THEN last.args[i]
                                    ELSE IF i \in last.pre.bound THEN "value"
                                    ELSE NULL
    /\ last.op = "Column" =>
           /\ calls = <<>>
           /\ \A i \in Cols :
                  out[i] = IF i <= last.n THEN sqlite3_column(eng, i - 1) ELSE Unset

\* A Bind of two different arguments has bound both, over a statement whose
\* positions held other values before.
C12_Witness ==
    /\ last.op = "Bind"
    /\ last.exc = "none"
    /\ Len(last.args) = 2
    /\ last.args[1] # last.args[2]
    /\ last.pre.bound # {}

\* C16: a Reset that returns leaves the flag false and the engine statement
\* at its start, whichever state it was called in, and the Fetch calls that
\* follow it deliver row 1, row 2, ... and then false; a Reset that does not
\* return raises the engine's failure, having called sqlite3_reset once.
C16_ResetReturnsToIdle ==
    /\ last.op = "Reset" =>
           /\ Len(calls) = 1
           /\ calls[1].fn = "reset"
           /\ (last.exc = "none") = (calls[1].rc = "OK")
           /\ last.exc \in {"none", "sqlite"}
           /\ last.exc = "none" =>
                  /\ ~stmt.m_canFetch
                  /\ eng.state = "ready"
                  /\ eng.pos = 0
                  /\ runKind = "reset"
    /\ runKind = "reset" =>
           /\ last.op \in {"Reset", "Fetch"}
           /\ \A k \in 1..Len(fetchLog) :
                  IF k <= eng.nRows THEN fetchLog[k] = [ret |-> TRUE, row |-> k]
                  ELSE k = eng.nRows + 1 => fetchLog[k] = [ret |-> FALSE, row |-> 0]

\* A Reset called while a row was available and not yet fetched has returned.
C16_Witness ==
    /\ last.op = "Reset"
    /\ last.exc = "none"
    /\ last.pre.canFetch
    /\ last.pre.state = "run"
    /\ eng.nRows >= 2

\* The calls of the last operation that return a status to it.
StatusCalls == SelectSeq(calls, LAMBDA c : c.fn \notin {"finalize", "close"})

\* C17: an operation calls each engine primitive it needs once (each bind
\* once per position), goes no further than the first call whose status is
\* not the success status of that primitive, and raises the engine's failure
\* exactly when there is such a call.
C17_OneCallNoRetryNoSuppression ==
    LET sc == StatusCalls
        n == Len(sc)
    IN  /\ \A i, j \in 1..n :
               (i < j) => ~(sc[i].fn = sc[j].fn /\ sc[i].index = sc[j].index)
        /\ \A i \in 1..(n - 1) : Succeeded(sc[i])
        /\ (last.exc = "sqlite") = (n > 0 /\ ~Succeeded(sc[n]))
        /\ last.op \in {"OpenDatabase", "Reset", "Step", "Unbind"} => n = 1
        /\ last.op = "PrepareStatement" => n = IF last.sqlLen = 0 THEN 0 ELSE 1
        /\ last.op = "Fetch" => n = IF last.pre.canFetch THEN 0 ELSE 1
        /\ last.op = "Bind" =>
               n = IF last.exc = "none" THEN Len(last.args) ELSE n
        /\ last.op = "Execute" =>
               n = IF last.exc = "none" THEN Len(last.args) + 3 ELSE n
        /\ last.op \in {"Column", "DestroyStatement", "CloseDatabase"} => n = 0

\* An Execute has raised at the bind of its second argument, after a reset, a
\* clear_bindings and a first bind that succeeded.
C17_Witness ==
    /\ last.op = "Execute"
    /\ last.exc = "sqlite"
    /\ Len(calls) = 4
    /\ calls[4].fn = "bind"
    /\ calls[4].index = 2

\* C18: the flag goes from false to true only across a Step, an Execute or a
\* Fetch whose sqlite3_step returned SQLITE_ROW; no other operation, and no
\* step that returned SQLITE_DONE or failed, turns a false flag true.
C18_FlagSetOnlyByARow ==
    [][(~stmt.m_canFetch /\ stmt'.m_canFetch) =>
           /\ last'.op \in {"Step", "Execute", "Fetch"}
           /\ Len(calls') > 0
           /\ calls'[Len(calls')].fn = "step"
           /\ calls'[Len(calls')].rc = "ROW"]_vars

\* An Execute entered with the flag false has left it true.
C18_Witness ==
    /\ last.op = "Execute"
    /\ ~last.pre.canFetch
    /\ stmt.m_canFetch

\* C19: a Fetch that returned false, or raised, has left every output
\* argument holding what it held when the call was made.
C19_NoRowNoExtraction ==
    (last.op = "Fetch" /\ (last.exc # "none" \/ ~last.ret)) => out = NoOut

\* A Fetch with output arguments has returned false after the rows of the
\* query were fetched.
C19_Witness ==
    /\ last.op = "Fetch"
    /\ last.exc = "none"
    /\ ~last.ret
    /\ last.n = MaxCols
    /\ Len(fetchLog) >= 2
    /\ fetchLog[1].ret

-----------------------------------------------------------------------------
(* Claims about making statements, checked under SpecDb. *)

\* C6: a Statement made from empty text, by the constructor (which is what
\* PrepareStatement calls) or inside Database::Execute, raises invalid_argument
\* with no engine call issued, no engine statement acquired and no Statement
\* object left.
C6_EmptyTextRejectedFirst ==
    (last.op \in {"PrepareStatement", "DatabaseExecute"} /\ last.sqlLen = 0) =>
        /\ last.exc = "invalid_argument"
        /\ calls = <<>>
        /\ engLive = IF stmt.live THEN 1 ELSE 0
        /\ last.op = "PrepareStatement" => ~stmt.live

\* Database::Execute has just been refused empty text.
C6_Witness ==
    /\ last.op = "DatabaseExecute"
    /\ last.sqlLen = 0
    /\ last.exc = "invalid_argument"

\* C11: every engine resource obtained is released exactly once, failures
\* included.  No connection is open without a Database object and no statement
\* is prepared without a Statement object; a Database constructor that raised
\* has closed the connection the open call produced and left no Database; a
\* Statement constructor that raised at prepare left no statement; and
\* Database::Execute, returned or raised, has finalized the statement it
\* prepared as the last thing it did, once.
C11_NothingOutlivesAFailure ==
    /\ connLive = IF db.live THEN 1 ELSE 0
    /\ engLive = IF stmt.live THEN 1 ELSE 0
    /\ (last.op = "OpenDatabase" /\ last.exc # "none") =>
           /\ ~db.live
           /\ Opened(calls) = 0
           /\ NCalls(calls, "close", "OK") <= 1
    /\ (last.op = "PrepareStatement" /\ last.exc # "none") =>
           /\ ~stmt.live
           /\ Acquired(calls) = 0
    /\ last.op = "DatabaseExecute" =>
           /\ Acquired(calls) = 0
           /\ NCalls(calls, "prepare", "OK") = 1 =>
                  /\ calls[Len(calls)].fn = "finalize"
                  /\ NCalls(calls, "finalize", "OK") = 1

\* Database::Execute raised at its step and the temporary statement was
\* finalized after that, while the Database stays open.
C11_Witness ==
    /\ last.op = "DatabaseExecute"
    /\ last.exc = "sqlite"
    /\ Len(calls) >= 2
    /\ calls[Len(calls) - 1].fn = "step"
    /\ calls[Len(calls)].fn = "finalize"
    /\ connLive = 1

-----------------------------------------------------------------------------
(* SpecBind: a value is bound to a parameter, the engine stores it, and the  *)
(* stored value is read back through a Column rule of the matching storage   *)
(* class.                                                                    *)

Bound(kind, arg, cell) ==
    /\ bnd' = [Idle EXCEPT !.phase = "bound", !.bkind = kind, !.arg = arg,
                           !.cell = cell]
    /\ UNCHANGED <<hvars, svars, dvars>>

Read(kind, dest, res) ==
    /\ bnd' = [bnd EXCEPT !.phase = "read", !.ckind = kind, !.dest = dest,
                          !.res = res]
    /\ UNCHANGED <<hvars, svars, dvars>>

\* stmt.Bind(std::string)
DoBindStdString(text) ==
    /\ bnd.phase = "idle"
    /\ LET arg == TextValue(text)
       IN  Bound("string", arg, BindStdString(arg))

\* stmt.Bind(std::string_view)
DoBindStringView(text, tail) ==
    /\ bnd.phase = "idle"
    /\ LET arg == [TextValue(text) EXCEPT !.tail = tail]
       IN  Bound("string_view", arg, BindStringView(arg))

\* stmt.Bind(std::optional<T>)
DoBindOptional(T, arg) ==
    /\ bnd.phase = "idle"
    /\ Bound("optional_" \o T, arg, BindOptional(T, arg))

\* stmt.Bind(std::nullopt)
DoBindNullopt ==
    /\ bnd.phase = "idle"
    /\ Bound("nullopt", Absent, BindNullopt)

\* stmt.Column(std::string&) on a text or NULL column
DoColumnStdString(dest) ==
    /\ bnd.phase = "bound"
    /\ bnd.cell.type \in {"text", "null"}
    /\ Read("string", dest, TextValue(ColumnStdString(bnd.cell)))

\* stmt.Column(std::optional<T>&) on a column of T's storage class or NULL
DoColumnOptional(T, dest) ==
    /\ bnd.phase = "bound"
    /\ bnd.cell.type \in {IF T = "string" THEN "text" ELSE "integer", "null"}
    /\ Read("optional_" \o T, dest, ColumnOptional(T, bnd.cell))

\* stmt.Bind(v) for v of an integral type T
DoBindIntegral(T, v) ==
    /\ bnd.phase = "idle"
    /\ LET arg == IntValue(v)
       IN  bnd' = [Idle EXCEPT !.phase = "bound", !.bkind = "integral",
                               !.btype = T, !.arg = arg,
                               !.cell = BindIntegral(T, arg)]
    /\ UNCHANGED <<hvars, svars, dvars>>

\* stmt.Column(T&) for an integral type T, on an integer column
DoColumnIntegral(T, dest) ==
    /\ bnd.phase = "bound"
    /\ bnd.cell.type = "integer"
    /\ bnd' = [bnd EXCEPT !.phase = "read", !.ckind = "integral", !.ctype = T,
                          !.dest = dest,
                          !.res = IntValue(ColumnIntegral(T, bnd.cell))]
    /\ UNCHANGED <<hvars, svars, dvars>>

BlobKinds == {"const_span", "span", "vector"}

\* stmt.Bind(b) for b a std::span<const std::uint8_t>, a std::span<std::uint8_t>
\* or a std::vector<std::uint8_t>
DoBindBlob(kind, bytes, isNull) ==
    /\ bnd.phase = "idle"
    /\ isNull => bytes = <<>>
    /\ LET arg == BlobValue(bytes, <<>>)
       IN  Bound(kind, arg, CASE kind = "const_span" -> BindConstSpan(arg, isNull)
                              [] kind = "span" -> BindSpan(arg, isNull)
                              [] kind = "vector" -> BindVector(arg, isNull))

\* stmt.Column(std::span<std::uint8_t>) on a blob or NULL column; after is the
\* memory that follows the view
DoColumnSpan(view, after) ==
    /\ bnd.phase = "bound"
    /\ bnd.cell.type \in {"blob", "null"}
    /\ LET dest == BlobValue(view, after)
       IN  Read("span", dest, ColumnSpan(bnd.cell, dest))

\* stmt.Column(std::vector<std::uint8_t>&) on a blob or NULL column
DoColumnVector(old) ==
    /\ bnd.phase = "bound"
    /\ bnd.cell.type \in {"blob", "null"}
    /\ LET dest == BlobValue(old, <<>>)
       IN  Read("vector", dest, ColumnVector(bnd.cell, dest))

\* Byte sequences of a span or a vector
Blobs == SeqsUpTo(Bytes, MaxLen)

\* The memory behind a view: as long as the longest column, of one byte value
Afters == {[i \in 1..MaxLen |-> b] : b \in Bytes}

OptionalArgs(T) ==
    {Absent} \cup IF T = "string" THEN {TextValue(t) : t \in Texts}
                  ELSE {IntValue(v) : v \in Ints(Int32T.width)}

\* What an output argument may hold before Column is handed it.
Dests(T) ==
    {Absent, IF T = "string" THEN TextValue(<<1>>)
             ELSE IntValue(Ones(1, Int32T.width))}

NextBind ==
    \/ \E text \in Texts : DoBindStdString(text)
    \/ \E text \in Texts, tail \in Tails : DoBindStringView(text, tail)
    \/ \E T \in {"string", "int32"} : \E arg \in OptionalArgs(T) : DoBindOptional(T, arg)
    \/ DoBindNullopt
    \/ \E dest \in Dests("string") \ {Absent} : DoColumnStdString(dest)
    \/ \E T \in {"string", "int32"} : \E dest \in Dests(T) : DoColumnOptional(T, dest)
    \/ \E T \in IntegralTypes : \E v \in Ints(T.width) : DoBindIntegral(T, v)
    \/ \E kind \in BlobKinds, bytes \in Blobs, isNull \in BOOLEAN :
           DoBindBlob(kind, bytes, isNull)
    \/ \E view \in Blobs, after \in Afters : DoColumnSpan(view, after)
    \/ \E old \in Blobs : DoColumnVector(old)
    \/ \E T \in IntegralTypes : DoColumnIntegral(T, IntValue(Ones(1, T.width)))

SpecBind == InitHandle /\ [][NextBind]_vars

-----------------------------------------------------------------------------
(* Claims about Binding<T>, checked under SpecBind. *)

\* C7: a text bound as a std::string or a std::string_view and read back as a
\* std::string comes back with the same length and the same bytes.
C7_Original ==
    (bnd.phase = "read" /\ bnd.bkind \in {"string", "string_view"}
                        /\ bnd.ckind = "string") =>
        bnd.res.text = bnd.arg.text

\* C10: an absent optional (or std::nullopt) is stored as NULL; a NULL column
\* read into an optional leaves it absent whatever it held; a present optional
\* holding v, read back into an optional of the same T, is present and holds v.
C10_Original ==
    /\ (bnd.phase # "idle" /\ bnd.bkind \in {"optional_string", "optional_int32", "nullopt"}
                           /\ ~bnd.arg.has) =>
           bnd.cell.type = "null"
    /\ (bnd.phase = "read" /\ bnd.ckind \in {"optional_string", "optional_int32"}
                           /\ bnd.cell.type = "null") =>
           ~bnd.res.has
    /\ (bnd.phase = "read" /\ bnd.bkind \in {"optional_string", "optional_int32"}
                           /\ bnd.ckind = bnd.bkind /\ bnd.arg.has) =>
           bnd.res = bnd.arg

\* C13: a value v of an integral type T (signed or unsigned; 8, 16, 32 or 64
\* bits), bound and read back through the Column rule of the same T, comes back
\* as v; what the engine stores is a 64-bit integer that, for a T narrower than
\* 64 bits, is the sign extension of the 32-bit integer v converts to, and for
\* a 64-bit T has the bits of v.
C13_IntegralRoundTrip ==
    (bnd.phase # "idle" /\ bnd.bkind = "integral") =>
        /\ Len(bnd.arg.int) = bnd.btype.width
        /\ bnd.cell.type = "integer"
        /\ Len(bnd.cell.int) = 64
        /\ bnd.btype.width < 64 =>
               \A i \in 32..64 : bnd.cell.int[i] = bnd.cell.int[32]
        /\ \A i \in 1..bnd.btype.width : bnd.cell.int[i] = bnd.arg.int[i]
        /\ (bnd.phase = "read" /\ bnd.ckind = "integral"
                               /\ bnd.ctype = bnd.btype) =>
               bnd.res = bnd.arg

\* The largest value of the unsigned 32-bit type, which no 32-bit signed
\* integer equals, has been bound and read back as that type.
C13_Witness ==
    /\ bnd.phase = "read"
    /\ bnd.bkind = "integral"
    /\ bnd.ckind = "integral"
    /\ bnd.btype = [signed |-> FALSE, width |-> 32]
    /\ bnd.ctype = bnd.btype
    /\ bnd.arg.int = Ones(32, 32)

\* C15: a byte sequence b of any length n >= 0, bound as a blob and read back
\* into a std::vector<std::uint8_t>, leaves the vector with length n and the
\* bytes of b, whatever length and bytes the vector had.
C15_BlobRoundTrip ==
    (bnd.phase = "read" /\ bnd.bkind \in BlobKinds /\ bnd.ckind = "vector") =>
        /\ Len(bnd.res.text) = Len(bnd.arg.text)
        /\ bnd.res.text = bnd.arg.text

\* A blob holding a zero byte has been read into a vector that was longer
\* than it and held other bytes.
C15_Witness ==
    /\ bnd.phase = "read"
    /\ bnd.bkind = "vector"
    /\ bnd.ckind = "vector"
    /\ Len(bnd.arg.text) >= 2
    /\ \E i \in 1..Len(bnd.arg.text) : bnd.arg.text[i] = 0
    /\ Len(bnd.dest.text) > Len(bnd.arg.text)
    /\ SubSeq(bnd.dest.text, 1, Len(bnd.arg.text)) # bnd.arg.text

\* C20: a blob column of n bytes read into a std::span<std::uint8_t> of m
\* bytes leaves the first min(n, m) bytes of the view equal to those of the
\* column, the other bytes of the view as they were, and the memory behind
\* the view as it was.
C20_SpanReadCopiesMin ==
    (bnd.phase = "read" /\ bnd.ckind = "span") =>
        LET n == IF bnd.cell.type = "blob" THEN Len(bnd.cell.text) ELSE 0
            m == Len(bnd.dest.text)
            k == IF n < m THEN n ELSE m
        IN  /\ Len(bnd.res.text) = m
            /\ \A i \in 1..m :
                   bnd.res.text[i] = IF i <= k THEN bnd.cell.text[i]
                                     ELSE bnd.dest.text[i]
            /\ bnd.res.tail = bnd.dest.tail

\* A column longer than the view has been read into it, where the byte of the
\* column just past the view's length differs from the byte behind the view.
C20_Witness ==
    /\ bnd.phase = "read"
    /\ bnd.ckind = "span"
    /\ bnd.cell.type = "blob"
    /\ Len(bnd.dest.text) >= 1
    /\ Len(bnd.cell.text) > Len(bnd.dest.text)
    /\ bnd.cell.text[Len(bnd.dest.text) + 1] # bnd.dest.tail[1]

====
